---- MODULE Spec2Model ----
(***************************************************************************)
(* num-traits byte conversion (ToFromBytes) and its build-time capability  *)
(* prober.                                                                 *)
(*                                                                         *)
(* Two specifications share the variables:                                 *)
(*   BuildSpec  build.rs run statement by statement, followed by the       *)
(*              compilation of src/ops/bytes.rs under the cfgs it emitted  *)
(*              and the cargo features of the build;                       *)
(*   Spec       the six ToFromBytes operations of the compiled crate,      *)
(*              applied to values and byte arrays of every implemented     *)
(*              type on both host endiannesses.                            *)
(*                                                                         *)
(* A value is its bit pattern: a function from bit significance 0..8*W-1   *)
(* to {0,1} (two's complement for integers, IEEE-754 for floats).  A byte  *)
(* array is a sequence of numbers 0..255.                                  *)
(***************************************************************************)
EXTENDS Integers, Sequences, FiniteSets, TLC

VARIABLES
    target_endian,        \* cfg!(target_endian): "big" or "little"
    target_pointer_width, \* 32 or 64
    toolchain,            \* what the compiler can compile (capabilities)
    features,             \* cargo features of the build (CARGO_FEATURE_*, cfg(feature = ..))
    pc,                   \* build.rs position
    cfgs,                 \* cargo:rustc-cfg names emitted so far
    crate,                \* "pending", "ok" (compiled) or "error"
    impls,                \* per type: "native", "fallback" or "none"
    ty,                   \* runtime: type the operations are applied to
    val,                  \* runtime: current value (bit pattern)
    bytes,                \* runtime: current byte array
    hist                  \* runtime: the operations applied, and val before the last

vars == <<target_endian, target_pointer_width, toolchain, features, pc, cfgs,
          crate, impls, ty, val, bytes, hist>>

buildVars == <<pc, cfgs, crate, impls>>
envVars == <<target_endian, target_pointer_width, toolchain, features>>
runVars == <<ty, val, bytes, hist>>

-----------------------------------------------------------------------------
(* Types and widths *)

IntTypes == {"u8", "u16", "u32", "u64", "usize", "i8", "i16", "i32", "i64", "isize"}
I128Types == {"u128", "i128"}
FloatTypes == {"f32", "f64"}
AllTypes == IntTypes \cup I128Types \cup FloatTypes

\* $L of each macro invocation: the length of type Bytes = [u8; $L].
BytesLen(T) ==
    CASE T \in {"u8", "i8"} -> 1
      [] T \in {"u16", "i16"} -> 2
      [] T \in {"u32", "i32", "f32"} -> 4
      [] T \in {"u64", "i64", "f64"} -> 8
      [] T \in {"usize", "isize"} -> 8
      [] T \in {"u128", "i128"} -> 16

\* size_of::<T>() on a target of pointer width pw: what transmute and the
\* primitive's inherent methods see.
StorageWidthOn(T, pw) ==
    CASE T \in {"u8", "i8"} -> 1
      [] T \in {"u16", "i16"} -> 2
      [] T \in {"u32", "i32", "f32"} -> 4
      [] T \in {"u64", "i64", "f64"} -> 8
      [] T \in {"usize", "isize"} -> pw \div 8
      [] T \in {"u128", "i128"} -> 16

StorageWidth(T) == StorageWidthOn(T, target_pointer_width)

\* $I of float_to_from_bytes_impl!: the equal-width unsigned integer.
BitsType(T) == IF T = "f32" THEN "u32" ELSE "u64"

-----------------------------------------------------------------------------
(* build.rs, read as the statement sequence of lines 7-48: line 30 uses    *)
(* the ac of line 7, so the brace of line 26 does not end what runs.       *)

\* Capabilities build.rs probes the toolchain for.
BuildCaps == {"i128", "int_ne_bytes", "to_int_unchecked", "reverse_bits",
              "leading_trailing_ones", "int_assignop_ref", "div_euclid", "copysign"}

\* probe(snippet) / ac.probe_type / ac.emit_expression_cfg compile a snippet:
\* they succeed exactly when the toolchain has the capability it uses.
probe(cap) == cap \in toolchain

env_var_is_some(f) == f \in features

emit(name) == cfgs' = cfgs \cup {name}

\* ProbeI128 as it would be with the panic not guarded by CARGO_FEATURE_I128.
ProbeI128_PanicUnrequested ==
    /\ pc = "probe_i128"
    /\ IF probe("i128")
         THEN /\ emit("has_i128")
              /\ pc' = "probe_ne_bytes"
         ELSE /\ pc' = "panicked"
              /\ UNCHANGED cfgs
    /\ UNCHANGED <<crate, impls>>
    /\ UNCHANGED envVars /\ UNCHANGED runVars

\* ProbeI128 as it would be without the panic.
ProbeI128_NoPanic ==
    /\ pc = "probe_i128"
    /\ IF probe("i128") THEN emit("has_i128") ELSE UNCHANGED cfgs
    /\ pc' = "probe_ne_bytes"
    /\ UNCHANGED <<crate, impls>>
    /\ UNCHANGED envVars /\ UNCHANGED runVars

\* build.rs:8-12
ProbeI128 ==
    /\ pc = "probe_i128"
    /\ IF probe("i128")
         THEN /\ emit("has_i128")
              /\ pc' = "probe_ne_bytes"
         ELSE IF env_var_is_some("i128")
                THEN /\ pc' = "panicked"
                     /\ UNCHANGED cfgs
                ELSE /\ pc' = "probe_ne_bytes"
                     /\ UNCHANGED cfgs
    /\ UNCHANGED <<crate, impls>>
    /\ UNCHANGED envVars /\ UNCHANGED runVars

\* build.rs:14-25
ProbeNeBytes ==
    /\ pc = "probe_ne_bytes"
    /\ IF probe("int_ne_bytes")
         THEN emit("int_to_from_bytes")
         ELSE UNCHANGED cfgs
    /\ pc' = "emit_i128"
    /\ UNCHANGED <<crate, impls>>
    /\ UNCHANGED envVars /\ UNCHANGED runVars

\* build.rs:30-32
EmitI128 ==
    /\ pc = "emit_i128"
    /\ IF env_var_is_some("i128") \/ probe("i128")
         THEN emit("has_i128")
         ELSE UNCHANGED cfgs
    /\ pc' = "aux"
    /\ UNCHANGED <<crate, impls>>
    /\ UNCHANGED envVars /\ UNCHANGED runVars

\* ac.emit_expression_cfg(expr, cfg): emits cfg when expr compiles.
emit_expression_cfg(cap, name) == IF probe(cap) THEN {name} ELSE {}

\* build.rs:34-48
AuxProbes ==
    /\ pc = "aux"
    /\ cfgs' = cfgs
         \cup emit_expression_cfg("to_int_unchecked", "has_to_int_unchecked")
         \cup emit_expression_cfg("reverse_bits", "has_reverse_bits")
         \cup emit_expression_cfg("leading_trailing_ones", "has_leading_trailing_ones")
         \cup emit_expression_cfg("int_assignop_ref", "has_int_assignop_ref")
         \cup emit_expression_cfg("div_euclid", "has_div_euclid")
         \cup (IF env_var_is_some("std")
                 THEN emit_expression_cfg("copysign", "has_copysign")
                 ELSE {})
    /\ pc' = "done"
    /\ UNCHANGED <<crate, impls>>
    /\ UNCHANGED envVars /\ UNCHANGED runVars

-----------------------------------------------------------------------------
(* Compilation of src/ops/bytes.rs *)

\* Which impl block of the two macros is compiled for T.
SelectedImpl(T, cf, feats) ==
    IF T \in I128Types /\ "has_i128" \notin cf
      THEN "none"
      ELSE IF T \in FloatTypes
             THEN IF "has_float_to_from_bytes" \in feats THEN "native" ELSE "fallback"
             ELSE IF "has_int_to_from_bytes" \in feats THEN "native" ELSE "fallback"

\* The primitive has inherent to_*_bytes / from_*_bytes methods.
HasInherent(T, tc) ==
    IF T \in FloatTypes THEN "float_ne_bytes" \in tc ELSE "int_ne_bytes" \in tc

\* rustc accepts the crate: u128/i128 must exist where they are named, and
\* in both impl blocks the value and [u8; $L] must have the same size
\* (transmute between sizes is error E0512; the inherent methods return
\* [u8; size_of::<T>()], which must be the declared Bytes type).
CompileOK(cf, feats, tc, pw) ==
    /\ "has_i128" \in cf => "i128" \in tc
    /\ \A T \in AllTypes :
         SelectedImpl(T, cf, feats) # "none" => BytesLen(T) = StorageWidthOn(T, pw)

CompileCrate ==
    /\ pc = "done"
    /\ crate = "pending"
    /\ impls' = [T \in AllTypes |-> SelectedImpl(T, cfgs, features)]
    /\ crate' = IF CompileOK(cfgs, features, toolchain, target_pointer_width)
                  THEN "ok" ELSE "error"
    /\ UNCHANGED <<pc, cfgs>>
    /\ UNCHANGED envVars /\ UNCHANGED runVars

-----------------------------------------------------------------------------
(* Bit patterns and byte arrays *)

NBits(T) == 8 * StorageWidth(T)

\* The byte of significance k (0 = least significant) of bit pattern v.
ByteAt(v, k) ==
    v[8 * k] + 2 * v[8 * k + 1] + 4 * v[8 * k + 2] + 8 * v[8 * k + 3]
    + 16 * v[8 * k + 4] + 32 * v[8 * k + 5] + 64 * v[8 * k + 6] + 128 * v[8 * k + 7]

\* Bit j (0 = least significant) of byte x.
BitOf(x, j) == (x \div (2 ^ j)) % 2

\* transmute_to_bytes as it would be if memory were little-endian everywhere.
transmute_to_bytes_little(T, v) == [i \in 1..BytesLen(T) |-> ByteAt(v, i - 1)]

\* core::mem::transmute::<T, [u8; $L]>: the value's bytes in memory order.
transmute_to_bytes(T, v) ==
    [i \in 1..BytesLen(T) |->
        IF target_endian = "little" THEN ByteAt(v, i - 1)
                                    ELSE ByteAt(v, StorageWidth(T) - i)]

\* core::mem::transmute::<[u8; $L], T>: the bytes in memory read as a value.
transmute_from_bytes(T, b) ==
    [n \in 0..(NBits(T) - 1) |->
        IF target_endian = "little" THEN BitOf(b[(n \div 8) + 1], n % 8)
                                    ELSE BitOf(b[BytesLen(T) - (n \div 8)], n % 8)]

\* swap_bytes as a rotation by one byte instead of a reversal.
swap_bytes_rotate(T, v) == [n \in 0..(NBits(T) - 1) |-> v[(n + 8) % NBits(T)]]

\* <$T>::swap_bytes: reverses the byte order of the value.
swap_bytes(T, v) ==
    [n \in 0..(NBits(T) - 1) |-> v[8 * (StorageWidth(T) - 1 - (n \div 8)) + (n % 8)]]

\* to_be with the endianness test inverted, to_le never swapping, and from_le
\* swapping as from_be does.
to_be_inverted(T, v) == IF target_endian = "little" THEN v ELSE swap_bytes(T, v)
to_le_no_swap(T, v) == v
from_le_as_from_be(T, v) == IF target_endian = "big" THEN v ELSE swap_bytes(T, v)

\* <$T>::to_be / to_le / from_be / from_le: swap unless the host has that order.
to_be(T, v) == IF target_endian = "big" THEN v ELSE swap_bytes(T, v)
to_le(T, v) == IF target_endian = "little" THEN v ELSE swap_bytes(T, v)
from_be(T, v) == IF target_endian = "big" THEN v ELSE swap_bytes(T, v)
from_le(T, v) == IF target_endian = "little" THEN v ELSE swap_bytes(T, v)

\* The primitive's inherent methods, which the native impl delegates to.
prim_to_be_bytes(T, v) == [i \in 1..StorageWidth(T) |-> ByteAt(v, StorageWidth(T) - i)]
prim_to_le_bytes(T, v) == [i \in 1..StorageWidth(T) |-> ByteAt(v, i - 1)]
prim_to_ne_bytes(T, v) ==
    IF target_endian = "big" THEN prim_to_be_bytes(T, v) ELSE prim_to_le_bytes(T, v)
prim_from_be_bytes(T, b) ==
    [n \in 0..(NBits(T) - 1) |-> BitOf(b[StorageWidth(T) - (n \div 8)], n % 8)]
prim_from_le_bytes(T, b) ==
    [n \in 0..(NBits(T) - 1) |-> BitOf(b[(n \div 8) + 1], n % 8)]
prim_from_ne_bytes(T, b) ==
    IF target_endian = "big" THEN prim_from_be_bytes(T, b) ELSE prim_from_le_bytes(T, b)

-----------------------------------------------------------------------------
(* Method resolution inside the fallback impls: a path such as             *)
(* <$T>::to_ne_bytes or a call x.to_be_bytes() is the primitive's inherent *)
(* method when the toolchain has one, and the trait's method otherwise.    *)

\* int_to_from_bytes_impl!, #[cfg(not(feature = "has_int_to_from_bytes"))]
int_fallback_to_ne_bytes(T, v) == transmute_to_bytes(T, v)
int_fallback_from_ne_bytes(T, b) == transmute_from_bytes(T, b)

\* <$T>::to_ne_bytes(..) / Self::from_ne_bytes(..) named inside the int fallback impl.
int_path_to_ne_bytes(T, v) ==
    IF HasInherent(T, toolchain) THEN prim_to_ne_bytes(T, v)
                                 ELSE int_fallback_to_ne_bytes(T, v)
int_path_from_ne_bytes(T, b) ==
    IF HasInherent(T, toolchain) THEN prim_from_ne_bytes(T, b)
                                 ELSE int_fallback_from_ne_bytes(T, b)

int_fallback_to_be_bytes(T, v) == int_path_to_ne_bytes(T, to_be(T, v))
int_fallback_to_le_bytes(T, v) == int_path_to_ne_bytes(T, to_le(T, v))
int_fallback_from_be_bytes(T, b) == from_be(T, int_path_from_ne_bytes(T, b))
int_fallback_from_le_bytes(T, b) == from_le(T, int_path_from_ne_bytes(T, b))

\* ToFromBytes for an integer type, as compiled (im: "native" or "fallback").
int_to_be_bytes(im, T, v) ==
    IF im = "native" THEN prim_to_be_bytes(T, v) ELSE int_fallback_to_be_bytes(T, v)
int_to_le_bytes(im, T, v) ==
    IF im = "native" THEN prim_to_le_bytes(T, v) ELSE int_fallback_to_le_bytes(T, v)
int_to_ne_bytes(im, T, v) ==
    IF im = "native" THEN prim_to_ne_bytes(T, v) ELSE int_fallback_to_ne_bytes(T, v)
int_from_be_bytes(im, T, b) ==
    IF im = "native" THEN prim_from_be_bytes(T, b) ELSE int_fallback_from_be_bytes(T, b)
int_from_le_bytes(im, T, b) ==
    IF im = "native" THEN prim_from_le_bytes(T, b) ELSE int_fallback_from_le_bytes(T, b)
int_from_ne_bytes(im, T, b) ==
    IF im = "native" THEN prim_from_ne_bytes(T, b) ELSE int_fallback_from_ne_bytes(T, b)

\* float_to_from_bytes_impl!, #[cfg(not(feature = "has_float_to_from_bytes"))]
float_fallback_to_ne_bytes(T, v) == transmute_to_bytes(T, v)
float_fallback_from_ne_bytes(T, b) == transmute_from_bytes(T, b)

\* self.to_ne_bytes() / Self::from_ne_bytes(..) on the float, and
\* <$I>::from_*_bytes(..) / .to_*_bytes() on the integer $I, inside the float
\* fallback impl (im: the impl compiled for $I).
float_path_to_ne_bytes(T, v) ==
    IF HasInherent(T, toolchain) THEN prim_to_ne_bytes(T, v)
                                 ELSE float_fallback_to_ne_bytes(T, v)
float_path_from_ne_bytes(T, b) ==
    IF HasInherent(T, toolchain) THEN prim_from_ne_bytes(T, b)
                                 ELSE float_fallback_from_ne_bytes(T, b)
bits_to_be_bytes(im, I, v) ==
    IF HasInherent(I, toolchain) THEN prim_to_be_bytes(I, v) ELSE int_to_be_bytes(im, I, v)
bits_to_le_bytes(im, I, v) ==
    IF HasInherent(I, toolchain) THEN prim_to_le_bytes(I, v) ELSE int_to_le_bytes(im, I, v)
bits_to_ne_bytes(im, I, v) ==
    IF HasInherent(I, toolchain) THEN prim_to_ne_bytes(I, v) ELSE int_to_ne_bytes(im, I, v)
bits_from_be_bytes(im, I, b) ==
    IF HasInherent(I, toolchain) THEN prim_from_be_bytes(I, b) ELSE int_from_be_bytes(im, I, b)
bits_from_le_bytes(im, I, b) ==
    IF HasInherent(I, toolchain) THEN prim_from_le_bytes(I, b) ELSE int_from_le_bytes(im, I, b)
bits_from_ne_bytes(im, I, b) ==
    IF HasInherent(I, toolchain) THEN prim_from_ne_bytes(I, b) ELSE int_from_ne_bytes(im, I, b)

\* float_fallback_to_be_bytes ending in to_le_bytes.
float_fallback_to_be_bytes_le(im, T, v) ==
    bits_to_le_bytes(im, BitsType(T),
        bits_from_ne_bytes(im, BitsType(T), float_path_to_ne_bytes(T, v)))

float_fallback_to_be_bytes(im, T, v) ==
    bits_to_be_bytes(im, BitsType(T),
        bits_from_ne_bytes(im, BitsType(T), float_path_to_ne_bytes(T, v)))
float_fallback_to_le_bytes(im, T, v) ==
    bits_to_le_bytes(im, BitsType(T),
        bits_from_ne_bytes(im, BitsType(T), float_path_to_ne_bytes(T, v)))
float_fallback_from_be_bytes(im, T, b) ==
    float_path_from_ne_bytes(T,
        bits_to_ne_bytes(im, BitsType(T), bits_from_be_bytes(im, BitsType(T), b)))
float_fallback_from_le_bytes(im, T, b) ==
    float_path_from_ne_bytes(T,
        bits_to_ne_bytes(im, BitsType(T), bits_from_le_bytes(im, BitsType(T), b)))

\* A call returns unless it resolves to the trait method it is the body of:
\* the native impl of a primitive without inherent methods calls itself.
Returns(T, im) ==
    IF T \in FloatTypes
      THEN IF im[T] = "native"
             THEN HasInherent(T, toolchain)
             ELSE HasInherent(BitsType(T), toolchain) \/ im[BitsType(T)] = "fallback"
      ELSE im[T] = "native" => HasInherent(T, toolchain)

\* The trait's six operations on type T of the compiled crate.
to_be_bytes(T, v) ==
    IF T \in FloatTypes
      THEN IF impls[T] = "native" THEN prim_to_be_bytes(T, v)
           ELSE float_fallback_to_be_bytes(impls[BitsType(T)], T, v)
      ELSE int_to_be_bytes(impls[T], T, v)
to_le_bytes(T, v) ==
    IF T \in FloatTypes
      THEN IF impls[T] = "native" THEN prim_to_le_bytes(T, v)
           ELSE float_fallback_to_le_bytes(impls[BitsType(T)], T, v)
      ELSE int_to_le_bytes(impls[T], T, v)
to_ne_bytes(T, v) ==
    IF T \in FloatTypes
      THEN IF impls[T] = "native" THEN prim_to_ne_bytes(T, v)
           ELSE float_fallback_to_ne_bytes(T, v)
      ELSE int_to_ne_bytes(impls[T], T, v)
from_be_bytes(T, b) ==
    IF T \in FloatTypes
      THEN IF impls[T] = "native" THEN prim_from_be_bytes(T, b)
           ELSE float_fallback_from_be_bytes(impls[BitsType(T)], T, b)
      ELSE int_from_be_bytes(impls[T], T, b)
from_le_bytes(T, b) ==
    IF T \in FloatTypes
      THEN IF impls[T] = "native" THEN prim_from_le_bytes(T, b)
           ELSE float_fallback_from_le_bytes(impls[BitsType(T)], T, b)
      ELSE int_from_le_bytes(impls[T], T, b)
from_ne_bytes(T, b) ==
    IF T \in FloatTypes
      THEN IF impls[T] = "native" THEN prim_from_ne_bytes(T, b)
           ELSE float_fallback_from_ne_bytes(T, b)
      ELSE int_from_ne_bytes(impls[T], T, b)

-----------------------------------------------------------------------------
(* Inputs *)

\* Number of sample patterns per type.
NumSamples == 4

\* Byte i (1 = most significant) of sample pattern k of width W:
\*   0: 0x12, 0x34, 0x56, 0x78, 0x9A, ... (0x12345678 for width 4)
\*   1: the sign bit alone (negative zero, the most negative integer)
\*   2: 0x12, 0x34, 0x56, 0x78, 0x90, 0x12, 0x34, 0x56 repeated (build.rs:16)
\*   3: 0x7F, 0xF8, 0, ..., 0x01 (a NaN with a payload bit)
\*   4..: mixed bytes
SampleByte(k, i, W) ==
    CASE k = 0 -> (18 + 34 * (i - 1)) % 256
      [] k = 1 -> IF i = 1 THEN 128 ELSE 0
      [] k = 2 -> <<18, 52, 86, 120, 144, 18, 52, 86>>[((i - 1) % 8) + 1]
      [] k = 3 -> IF i = 1 THEN 127 ELSE IF i = 2 THEN 248 ELSE IF i = W THEN 1 ELSE 0
      [] OTHER -> (67 * k + 29 * i + 5) % 256

SampleValue(k, T) ==
    [n \in 0..(NBits(T) - 1) |->
        BitOf(SampleByte(k, StorageWidth(T) - (n \div 8), StorageWidth(T)), n % 8)]

SampleBytes(k, T) == [i \in 1..BytesLen(T) |-> SampleByte(k, i, BytesLen(T))]

-----------------------------------------------------------------------------
(* The operations at run time *)

\* Number of operations applied in a row to one value.
MaxOps == 2

Record(op) == hist' = [ops |-> Append(hist.ops, op), was |-> val]

Callable ==
    /\ crate = "ok"
    /\ impls[ty] # "none"
    /\ Returns(ty, impls)
    /\ Len(hist.ops) < MaxOps

ToBeBytes ==
    /\ Callable
    /\ bytes' = to_be_bytes(ty, val)
    /\ Record("to_be_bytes")
    /\ UNCHANGED <<ty, val>> /\ UNCHANGED envVars /\ UNCHANGED buildVars

ToLeBytes ==
    /\ Callable
    /\ bytes' = to_le_bytes(ty, val)
    /\ Record("to_le_bytes")
    /\ UNCHANGED <<ty, val>> /\ UNCHANGED envVars /\ UNCHANGED buildVars

ToNeBytes ==
    /\ Callable
    /\ bytes' = to_ne_bytes(ty, val)
    /\ Record("to_ne_bytes")
    /\ UNCHANGED <<ty, val>> /\ UNCHANGED envVars /\ UNCHANGED buildVars

FromBeBytes ==
    /\ Callable
    /\ val' = from_be_bytes(ty, bytes)
    /\ Record("from_be_bytes")
    /\ UNCHANGED <<ty, bytes>> /\ UNCHANGED envVars /\ UNCHANGED buildVars

FromLeBytes ==
    /\ Callable
    /\ val' = from_le_bytes(ty, bytes)
    /\ Record("from_le_bytes")
    /\ UNCHANGED <<ty, bytes>> /\ UNCHANGED envVars /\ UNCHANGED buildVars

FromNeBytes ==
    /\ Callable
    /\ val' = from_ne_bytes(ty, bytes)
    /\ Record("from_ne_bytes")
    /\ UNCHANGED <<ty, bytes>> /\ UNCHANGED envVars /\ UNCHANGED buildVars

-----------------------------------------------------------------------------
(* Specifications *)

Idle == [ops |-> <<>>, was |-> <<>>]

\* The build starts with nothing emitted and nothing compiled.
BuildInit ==
    /\ target_endian \in {"big", "little"}
    /\ target_pointer_width \in {32, 64}
    /\ toolchain \in SUBSET BuildCaps
    /\ features \in SUBSET {"i128", "std", "has_int_to_from_bytes", "has_float_to_from_bytes"}
    /\ pc = "probe_i128"
    /\ cfgs = {}
    /\ crate = "pending"
    /\ impls = [T \in AllTypes |-> "none"]
    /\ ty = "u8"
    /\ val = <<>>
    /\ bytes = <<>>
    /\ hist = Idle

BuildNext == ProbeI128 \/ ProbeNeBytes \/ EmitI128 \/ AuxProbes \/ CompileCrate

BuildSpec == BuildInit /\ [][BuildNext]_vars

\* Capabilities that matter to src/ops/bytes.rs.  A toolchain with the float
\* byte methods (Rust 1.40) has the integer ones (Rust 1.32).
RunCaps == {"i128", "int_ne_bytes", "float_ne_bytes"}

\* What build.rs has emitted of has_i128 and int_to_from_bytes when it is done.
EmittedFor(tc) ==
    (IF "i128" \in tc THEN {"has_i128"} ELSE {})
    \cup (IF "int_ne_bytes" \in tc THEN {"int_to_from_bytes"} ELSE {})

\* A crate that compiled, about to convert a value or a byte array.
Init ==
    /\ target_endian \in {"big", "little"}
    /\ target_pointer_width \in {32, 64}
    /\ toolchain \in SUBSET RunCaps
    /\ "float_ne_bytes" \in toolchain => "int_ne_bytes" \in toolchain
    /\ features \in SUBSET {"has_int_to_from_bytes", "has_float_to_from_bytes"}
    /\ pc = "done"
    /\ cfgs = EmittedFor(toolchain)
    /\ CompileOK(cfgs, features, toolchain, target_pointer_width)
    /\ crate = "ok"
    /\ impls = [T \in AllTypes |-> SelectedImpl(T, cfgs, features)]
    /\ ty \in {T \in AllTypes : impls[T] # "none"}
    /\ \E k \in 0..(NumSamples - 1) :
         /\ val = SampleValue(k, ty)
         /\ bytes = SampleBytes((k + 1) % NumSamples, ty)
    /\ hist = Idle

Next == ToBeBytes \/ ToLeBytes \/ ToNeBytes \/ FromBeBytes \/ FromLeBytes \/ FromNeBytes

Spec == Init /\ [][Next]_vars

-----------------------------------------------------------------------------
(* Properties *)

LastOp == IF hist.ops = <<>> THEN "none" ELSE hist.ops[Len(hist.ops)]
LastTwo(a, b) ==
    /\ Len(hist.ops) >= 2
    /\ hist.ops[Len(hist.ops) - 1] = a
    /\ hist.ops[Len(hist.ops)] = b
Width == BytesLen(ty)
Reversed(b) == [i \in 1..Len(b) |-> b[Len(b) + 1 - i]]

\* 0x12345678u32 and 0x1234567890123456u64, by the positions of their one bits.
U32_12345678 ==
    [n \in 0..31 |->
        IF n \in {3, 4, 5, 6, 9, 10, 12, 14, 18, 20, 21, 25, 28} THEN 1 ELSE 0]
U64_1234567890123456 ==
    [n \in 0..63 |->
        IF n \in {1, 2, 4, 6, 10, 12, 13, 17, 20, 28, 31, 35, 36, 37, 38,
                  41, 42, 44, 46, 50, 52, 53, 57, 60}
          THEN 1 ELSE 0]

\* What build.rs has emitted agrees with the cfgs Init starts the compiled
\* crate from.
InitIsBuildResult ==
    crate = "ok" => cfgs \cap {"has_i128", "int_to_from_bytes"} = EmittedFor(toolchain)

\* C1: from_X_bytes(to_X_bytes(v)) = v bit for bit, for every implemented
\* type, every ordering X, both host endiannesses and both implementations.
C1_RoundTrip ==
    (\/ LastTwo("to_be_bytes", "from_be_bytes")
     \/ LastTwo("to_le_bytes", "from_le_bytes")
     \/ LastTwo("to_ne_bytes", "from_ne_bytes"))
    => /\ DOMAIN val = 0..(NBits(ty) - 1)
       /\ \A n \in DOMAIN val : val[n] = hist.was[n]

C1_Witness ==
    /\ LastTwo("to_le_bytes", "from_le_bytes")
    /\ ty = "i64"
    /\ impls[ty] = "fallback"
    /\ target_endian = "big"
    /\ val[63] = 1

\* C2: for an integer type of width W, byte i (0 <= i < W) of to_be_bytes(v)
\* holds bits 8*(W-1-i) .. 8*(W-1-i)+7 of v, whatever the host endianness and
\* the implementation; to_be_bytes(0x12345678u32) = [0x12, 0x34, 0x56, 0x78]
\* and from_be_bytes of that array is 0x12345678.
C2_BigEndianBytes ==
    /\ (LastOp = "to_be_bytes" /\ ty \notin FloatTypes)
         => /\ Len(bytes) = StorageWidth(ty)
            /\ \A i \in 0..(Width - 1) : \A j \in 0..7 :
                 BitOf(bytes[i + 1], j) = val[8 * (Width - 1 - i) + j]
    /\ (LastOp = "to_be_bytes" /\ ty = "u32" /\ val = U32_12345678)
         => bytes = <<18, 52, 86, 120>>
    /\ (LastOp = "from_be_bytes" /\ ty = "u32" /\ bytes = <<18, 52, 86, 120>>)
         => val = U32_12345678

C2_Witness ==
    /\ LastOp = "to_be_bytes"
    /\ ty = "u32"
    /\ val = U32_12345678
    /\ bytes = <<18, 52, 86, 120>>
    /\ impls[ty] = "fallback"
    /\ target_endian = "little"

\* C3: to_le_bytes(v) is the byte-reverse of to_be_bytes(v) for every type,
\* host endianness and implementation; for a width-1 type they are equal.
C3_LittleIsReversedBig ==
    LastOp = "to_le_bytes"
    => /\ bytes = Reversed(to_be_bytes(ty, val))
       /\ Width = 1 => bytes = to_be_bytes(ty, val)

C3_Witness ==
    /\ LastOp = "to_le_bytes"
    /\ ty = "u64"
    /\ impls[ty] = "fallback"
    /\ bytes[1] # bytes[8]

\* C4: to_ne_bytes is to_be_bytes on a big-endian target and to_le_bytes on
\* a little-endian one, and from_ne_bytes is from_be_bytes / from_le_bytes
\* likewise; 0x12345678u32 gives [0x12, 0x34, 0x56, 0x78] on big-endian and
\* [0x78, 0x56, 0x34, 0x12] on little-endian.
C4_NativeOrder ==
    /\ LastOp = "to_ne_bytes"
         => bytes = IF target_endian = "big" THEN to_be_bytes(ty, val)
                                             ELSE to_le_bytes(ty, val)
    /\ LastOp = "from_ne_bytes"
         => val = IF target_endian = "big" THEN from_be_bytes(ty, bytes)
                                           ELSE from_le_bytes(ty, bytes)
    /\ (LastOp = "to_ne_bytes" /\ ty = "u32" /\ val = U32_12345678)
         => bytes = IF target_endian = "big" THEN <<18, 52, 86, 120>>
                                             ELSE <<120, 86, 52, 18>>
    /\ (LastOp = "to_ne_bytes" /\ ty = "u64" /\ val = U64_1234567890123456)
         => bytes = IF target_endian = "big"
                      THEN <<18, 52, 86, 120, 144, 18, 52, 86>>
                      ELSE <<86, 52, 18, 144, 120, 86, 52, 18>>

C4_Witness ==
    /\ LastOp = "to_ne_bytes"
    /\ ty = "u64"
    /\ val = U64_1234567890123456
    /\ target_endian = "big"
    /\ impls[ty] = "fallback"
    /\ bytes = <<18, 52, 86, 120, 144, 18, 52, 86>>

\* C5: each of the six operations of the fallback implementation returns
\* what the native implementation (the primitive's own method) returns, for
\* every type, input and host endianness.
C5_FallbackIsNative ==
    /\ LastOp = "to_be_bytes" => bytes = prim_to_be_bytes(ty, val)
    /\ LastOp = "to_le_bytes" => bytes = prim_to_le_bytes(ty, val)
    /\ LastOp = "to_ne_bytes" => bytes = prim_to_ne_bytes(ty, val)
    /\ LastOp = "from_be_bytes" => val = prim_from_be_bytes(ty, bytes)
    /\ LastOp = "from_le_bytes" => val = prim_from_le_bytes(ty, bytes)
    /\ LastOp = "from_ne_bytes" => val = prim_from_ne_bytes(ty, bytes)

C5_Witness ==
    /\ LastOp = "from_le_bytes"
    /\ ty = "f64"
    /\ impls[ty] = "fallback"
    /\ impls["u64"] = "fallback"
    /\ ~HasInherent("u64", toolchain)
    /\ target_endian = "big"
    /\ ByteAt(val, 0) # ByteAt(val, 7)

\* C9: a float converts as the unsigned integer of its bit pattern: to_X_bytes
\* of the float is to_X_bytes of the u32 / u64 with the same bits, from_X_bytes
\* gives the bits the u32 / u64 from_X_bytes gives, and the sign bit of
\* negative zero survives a to/from round trip.
C9_FloatIsBitPattern ==
    ty \in FloatTypes
    => /\ LastOp = "to_be_bytes" => bytes = to_be_bytes(BitsType(ty), val)
       /\ LastOp = "to_le_bytes" => bytes = to_le_bytes(BitsType(ty), val)
       /\ LastOp = "to_ne_bytes" => bytes = to_ne_bytes(BitsType(ty), val)
       /\ LastOp = "from_be_bytes" => val = from_be_bytes(BitsType(ty), bytes)
       /\ LastOp = "from_le_bytes" => val = from_le_bytes(BitsType(ty), bytes)
       /\ LastOp = "from_ne_bytes" => val = from_ne_bytes(BitsType(ty), bytes)
       /\ ((\/ LastTwo("to_be_bytes", "from_be_bytes")
            \/ LastTwo("to_le_bytes", "from_le_bytes")
            \/ LastTwo("to_ne_bytes", "from_ne_bytes"))
           /\ hist.was = SampleValue(1, ty))
          => /\ val[NBits(ty) - 1] = 1
             /\ \A n \in 0..(NBits(ty) - 2) : val[n] = 0

C9_Witness ==
    /\ ty = "f32"
    /\ impls[ty] = "fallback"
    /\ LastTwo("to_be_bytes", "from_be_bytes")
    /\ hist.was = SampleValue(1, ty)
    /\ val[31] = 1
    /\ target_endian = "little"

\* C6: the length of Bytes is the storage width of the type on the target,
\* for every type the crate implements ToFromBytes for (4 for usize and isize
\* on a 32-bit target, 8 on a 64-bit one).
C6_BytesLenIsStorageWidth ==
    crate # "pending"
    => \A T \in AllTypes : impls[T] # "none" => BytesLen(T) = StorageWidth(T)

\* C7: the native implementation is compiled exactly when build.rs's
\* native-endian probe succeeded and emitted its cfg, otherwise the fallback;
\* one of the two per implemented type.
C7_SelectionFollowsProbe ==
    crate # "pending"
    => \A T \in AllTypes :
         impls[T] # "none"
         => /\ impls[T] \in {"native", "fallback"}
            /\ impls[T] = "native" <=> "int_to_from_bytes" \in cfgs

\* C8: build.rs panics exactly when the i128 feature is requested and the
\* 128-bit probe fails, and then has emitted no has_i128; in every other case
\* it never panics and always has a next statement to run until it is done.
Abort == "i128" \in features /\ "i128" \notin toolchain

====
